---- MODULE Spec2Model ----
(***************************************************************************)
(* Car-rental management backend (Django / Django REST framework).         *)
(* The model covers the rental write path (RentalSerializer.validate,      *)
(* Rental.is_car_available, RentalViewSet), the cascading foreign keys of  *)
(* the data model, the login view and the dashboard (dashboard_data).      *)
(*                                                                         *)
(* Timestamps are days 0 .. MaxDay.  Primary keys are positive integers    *)
(* handed out by per-table sequences and never reused.                     *)
(***************************************************************************)
EXTENDS Integers, FiniteSets, Sequences, TLC

VARIABLES
    users,      \* User table: id -> role
    locations,  \* Location table: set of ids
    cars,       \* Car table: id -> [status, location]
    rentals,    \* Rental table: id -> [user, car, start_date, end_date, status]
    logins,     \* LoginHistory table: id -> [user, timestamp]
    seq,        \* last primary key handed out, per table
    now,        \* wall clock (timezone.now())
    request,    \* the request or call handled last, with what it found stored
    response,   \* its outcome
    inflight    \* requests in progress: between is_valid() and save(), per
                \* worker, or the dashboard request between its queries

vars == <<users, locations, cars, rentals, logins, seq, now, request, response,
          inflight>>

----------------------------------------------------------------------------
(* Bounds of the model *)

MaxDay == 3
MaxRentals == 2
MaxLogins == 2

Days == 0 .. MaxDay

(* Python's None for exclude_rental_id and an unauthenticated requester;
   primary keys start at 1, so 0 is never a stored id. *)
NoId == 0
Anon == 0

RENTAL_STATUS == {"active", "completed", "cancelled"}
CAR_STATUS == {"available", "rented", "maintenance"}
ROLES == {"admin", "user"}

ErrDates == "End date must be after start date"
ErrUnavailable == "This car is not available for the selected dates"
ErrNotOwner == "You can only create rentals for yourself"

Has(data, k) == k \in DOMAIN data

(* dict.get(k, default) *)
Get(data, k, default) == IF k \in DOMAIN data THEN data[k] ELSE default

Restrict(f, S) == [x \in S |-> f[x]]

----------------------------------------------------------------------------
(* Rental.is_car_available: the queryset of active rentals of the candidate's
   car whose interval overlaps the candidate's, minus the excluded row. *)

OverlapsLax(r, start_date, end_date) ==
    r.start_date <= end_date /\ r.end_date >= start_date

OverlapsContaining(r, start_date, end_date) ==
    r.start_date < start_date /\ r.end_date > end_date

Overlaps(r, start_date, end_date) ==
    r.start_date < end_date /\ r.end_date > start_date

OverlappingRentalsAnyStatus(store, car, start_date, end_date) ==
    {i \in DOMAIN store :
        /\ store[i].car = car
        /\ Overlaps(store[i], start_date, end_date)}

OverlappingRentals(store, car, start_date, end_date) ==
    {i \in DOMAIN store :
        /\ store[i].car = car
        /\ store[i].status = "active"
        /\ Overlaps(store[i], start_date, end_date)}

IsCarAvailableIfKnown(store, car, start_date, end_date, exclude_rental_id) ==
    /\ \E i \in DOMAIN store : store[i].car = car
    /\ OverlappingRentals(store, car, start_date, end_date)
          \ {exclude_rental_id} = {}

IsCarAvailable(store, car, start_date, end_date, exclude_rental_id) ==
    LET overlapping == OverlappingRentals(store, car, start_date, end_date)
        remaining == IF exclude_rental_id # NoId
                     THEN overlapping \ {exclude_rental_id}
                     ELSE overlapping
    IN  remaining = {}

----------------------------------------------------------------------------
(* RentalSerializer: field-level validation done by the ModelSerializer
   fields declared in Meta, then validate(data).  instance is NoId on
   create and the id of the row being edited on update. *)

RequiredFields == {"user", "car", "start_date", "end_date"}

FieldsValid(data, partial) ==
    /\ partial \/ RequiredFields \subseteq DOMAIN data
    /\ Has(data, "user") => data.user \in DOMAIN users
    /\ Has(data, "car") => data.car \in DOMAIN cars
    /\ Has(data, "status") => data.status \in RENTAL_STATUS

(* Result of validate: the error raised ("" when data is returned) and
   whether is_car_available was evaluated on the way. *)
ValidateAvailableCarsOnly(store, instance, data) ==
    IF Has(data, "start_date") /\ Has(data, "end_date")
    THEN IF data.start_date >= data.end_date
         THEN [error |-> ErrDates, checked |-> FALSE]
         ELSE LET car == IF instance = NoId THEN data.car
                         ELSE Get(data, "car", store[instance].car)
              IN IF /\ cars[car].status = "available"
                    /\ IsCarAvailable(store, car, data.start_date, data.end_date,
                                      instance)
                 THEN [error |-> "", checked |-> TRUE]
                 ELSE [error |-> ErrUnavailable, checked |-> TRUE]
    ELSE [error |-> "", checked |-> FALSE]

ValidateStoredCar(store, instance, data) ==
    IF Has(data, "start_date") /\ Has(data, "end_date")
    THEN IF data.start_date >= data.end_date
         THEN [error |-> ErrDates, checked |-> FALSE]
         ELSE LET car == IF instance = NoId THEN data.car ELSE store[instance].car
              IN IF IsCarAvailable(store, car, data.start_date, data.end_date,
                                   instance)
                 THEN [error |-> "", checked |-> TRUE]
                 ELSE [error |-> ErrUnavailable, checked |-> TRUE]
    ELSE [error |-> "", checked |-> FALSE]

ValidateNoDateCheck(store, instance, data) ==
    IF Has(data, "start_date") /\ Has(data, "end_date")
    THEN LET car == IF instance = NoId THEN data.car
                    ELSE Get(data, "car", store[instance].car)
         IN IF IsCarAvailable(store, car, data.start_date, data.end_date, instance)
            THEN [error |-> "", checked |-> TRUE]
            ELSE [error |-> ErrUnavailable, checked |-> TRUE]
    ELSE [error |-> "", checked |-> FALSE]

Validate(store, instance, data) ==
    IF Has(data, "start_date") /\ Has(data, "end_date")
    THEN IF data.start_date >= data.end_date
         THEN [error |-> ErrDates, checked |-> FALSE]
         ELSE LET car == IF instance = NoId THEN data.car
                         ELSE Get(data, "car", store[instance].car)
                  start_date == data.start_date
                  end_date == data.end_date
              IN IF IsCarAvailable(store, car, start_date, end_date, instance)
                 THEN [error |-> "", checked |-> TRUE]
                 ELSE [error |-> ErrUnavailable, checked |-> TRUE]
    ELSE [error |-> "", checked |-> FALSE]

(* ModelSerializer.create / update: the row written by serializer.save(). *)
NewRow(data, user) ==
    [user |-> user, car |-> data.car,
     start_date |-> data.start_date, end_date |-> data.end_date,
     status |-> Get(data, "status", "active")]

UpdatedRowReactivate(row, data) ==
    [user |-> Get(data, "user", row.user), car |-> Get(data, "car", row.car),
     start_date |-> Get(data, "start_date", row.start_date),
     end_date |-> Get(data, "end_date", row.end_date),
     status |-> IF Has(data, "status") THEN data.status
                ELSE IF Has(data, "end_date") THEN "active" ELSE row.status]

UpdatedRow(row, data) ==
    [user |-> Get(data, "user", row.user), car |-> Get(data, "car", row.car),
     start_date |-> Get(data, "start_date", row.start_date),
     end_date |-> Get(data, "end_date", row.end_date),
     status |-> Get(data, "status", row.status)]

----------------------------------------------------------------------------
(* RentalViewSet *)

IsAuthenticated(who) == who \in DOMAIN users

GetQuerysetAll(who) == IF IsAuthenticated(who) THEN DOMAIN rentals ELSE {}

(* get_queryset: the ids of the rentals the requester can reach. *)
GetQueryset(who) ==
    IF IsAuthenticated(who)
    THEN IF users[who] = "admin"
         THEN DOMAIN rentals
         ELSE {i \in DOMAIN rentals : rentals[i].user = who}
    ELSE {}

Resp(method, result, error, checked, id) ==
    [method |-> method, result |-> result, error |-> error,
     checked |-> checked, id |-> id]

Reject(method, result, error, checked) ==
    /\ response' = Resp(method, result, error, checked, NoId)
    /\ UNCHANGED <<users, locations, cars, rentals, logins, seq, now>>

SaveNewMarksRented(row, checked) ==
    LET id == seq.rental + 1 IN
    /\ rentals' = rentals @@ (id :> row)
    /\ seq' = [seq EXCEPT !.rental = id]
    /\ cars' = IF row.status = "active"
               THEN [cars EXCEPT ![row.car].status = "rented"] ELSE cars
    /\ response' = Resp("POST", "created", "", checked, id)
    /\ UNCHANGED <<users, locations, logins, now>>

(* serializer.save() on create: INSERT of a row under a fresh primary key. *)
SaveNew(row, checked) ==
    LET id == seq.rental + 1 IN
    /\ rentals' = rentals @@ (id :> row)
    /\ seq' = [seq EXCEPT !.rental = id]
    /\ response' = Resp("POST", "created", "", checked, id)
    /\ UNCHANGED <<users, locations, cars, logins, now>>

PerformCreateForAnyone(who, data, checked) ==
    SaveNew(NewRow(data, Get(data, "user", who)), checked)

(* perform_create, after is_valid() succeeded. *)
PerformCreate(who, data, checked) ==
    IF ~Has(data, "user")
    THEN SaveNew(NewRow(data, who), checked)
    ELSE IF users[who] # "admin" /\ data.user # who
         THEN Reject("POST", "denied", ErrNotOwner, checked)
         ELSE SaveNew(NewRow(data, data.user), checked)

(* POST /rentals/ handled in one piece: permission, is_valid(),
   perform_create. *)
CreateRental(who, data) ==
    /\ IF ~IsAuthenticated(who)
       THEN Reject("POST", "denied", "", FALSE)
       ELSE IF ~FieldsValid(data, FALSE)
            THEN Reject("POST", "invalid", "", FALSE)
            ELSE LET v == Validate(rentals, NoId, data) IN
                 IF v.error # ""
                 THEN Reject("POST", "invalid", v.error, v.checked)
                 ELSE PerformCreate(who, data, v.checked)
    /\ UNCHANGED inflight

(* PUT (partial = FALSE) or PATCH (partial = TRUE) /rentals/<id>/. *)
Method(partial) == IF partial THEN "PATCH" ELSE "PUT"

UpdateRental(who, id, data, partial) ==
    /\ IF ~IsAuthenticated(who)
       THEN Reject(Method(partial), "denied", "", FALSE)
       ELSE IF id \notin GetQueryset(who)
            THEN Reject(Method(partial), "not_found", "", FALSE)
            ELSE IF ~FieldsValid(data, partial)
                 THEN Reject(Method(partial), "invalid", "", FALSE)
                 ELSE LET v == Validate(rentals, id, data) IN
                      IF v.error # ""
                      THEN Reject(Method(partial), "invalid", v.error, v.checked)
                      ELSE /\ rentals' = [rentals EXCEPT ![id] = UpdatedRow(@, data)]
                           /\ response' = Resp(Method(partial), "updated", "",
                                               v.checked, id)
                           /\ UNCHANGED <<users, locations, cars, logins, seq, now>>
    /\ UNCHANGED inflight

(* DELETE /rentals/<id>/. *)
DeleteRental(who, id) ==
    /\ IF ~IsAuthenticated(who)
       THEN Reject("DELETE", "denied", "", FALSE)
       ELSE IF id \notin GetQueryset(who)
            THEN Reject("DELETE", "not_found", "", FALSE)
            ELSE /\ rentals' = Restrict(rentals, DOMAIN rentals \ {id})
                 /\ response' = Resp("DELETE", "deleted", "", FALSE, id)
                 /\ UNCHANGED <<users, locations, cars, logins, seq, now>>
    /\ UNCHANGED inflight

(* Time passing between requests: no handler runs. *)
Tick ==
    /\ now < MaxDay
    /\ now' = now + 1
    /\ response' = Resp("", "tick", "", FALSE, NoId)
    /\ UNCHANGED <<users, locations, cars, rentals, logins, seq, inflight>>

----------------------------------------------------------------------------
(* Request payloads *)

FullData(U, C) ==
    {[user |-> u, car |-> c, start_date |-> s, end_date |-> e] :
        u \in U, c \in C, s \in Days, e \in Days}

FullDataWithStatus(U, C) ==
    {[user |-> u, car |-> c, start_date |-> s, end_date |-> e, status |-> st] :
        u \in U, c \in C, s \in Days, e \in Days, st \in RENTAL_STATUS}

PatchData(C) ==
    {<<>>}
    \cup {[status |-> st] : st \in RENTAL_STATUS}
    \cup {[car |-> c] : c \in C}
    \cup {[start_date |-> s] : s \in Days}
    \cup {[end_date |-> e] : e \in Days}
    \cup {[start_date |-> s, end_date |-> e] : s \in Days, e \in Days}

----------------------------------------------------------------------------
(* The rental API, one request at a time, over a fixed fleet. *)

NoResponse == Resp("", "none", "", FALSE, NoId)

NoRequest == [op |-> "none"]

Init ==
    /\ users = (1 :> "admin") @@ (2 :> "user")
    /\ locations = {1}
    /\ cars = (1 :> [status |-> "available", location |-> 1])
              @@ (2 :> [status |-> "available", location |-> 1])
    /\ rentals = <<>>
    /\ logins = <<>>
    /\ seq = [user |-> 2, location |-> 1, car |-> 2, rental |-> 0, login |-> 0]
    /\ now = 0
    /\ request = NoRequest
    /\ response = NoResponse
    /\ inflight = <<>>

Customers == {2}

PostData == FullData(Customers, DOMAIN cars)

PutData ==
    FullData(Customers, DOMAIN cars) \cup FullDataWithStatus(Customers, DOMAIN cars)

PostRental ==
    /\ seq.rental < MaxRentals
    /\ \E who \in Customers, d \in PostData :
        CreateRental(who, d) /\ UNCHANGED request

PutRental ==
    \E who \in Customers, id \in DOMAIN rentals, d \in PostData :
        UpdateRental(who, id, d, FALSE) /\ UNCHANGED request

PatchRental ==
    \E who \in Customers, id \in DOMAIN rentals, d \in PatchData(DOMAIN cars) :
        UpdateRental(who, id, d, TRUE) /\ UNCHANGED request

Next == PostRental \/ PutRental \/ PatchRental

Spec == Init /\ [][Next]_vars

----------------------------------------------------------------------------
(* Properties of the rental write path, checked under Spec. *)

ActiveOn(store, car) ==
    {i \in DOMAIN store : store[i].car = car /\ store[i].status = "active"}

RowsOverlap(a, b) == a.start_date < b.end_date /\ a.end_date > b.start_date

(* C1: in every reachable state no two active rentals of the same car have
   overlapping intervals. *)
NoActiveOverlap ==
    \A i \in DOMAIN rentals, j \in DOMAIN rentals :
        (/\ i # j
         /\ rentals[i].car = rentals[j].car
         /\ rentals[i].status = "active"
         /\ rentals[j].status = "active")
        => ~RowsOverlap(rentals[i], rentals[j])

(* C6: in every reachable state every stored rental ends strictly after it
   starts. *)
EndAfterStart ==
    \A i \in DOMAIN rentals : rentals[i].end_date > rentals[i].start_date

----------------------------------------------------------------------------
(* One request, or one call of is_car_available, on a stored rental set.
   The Rental table is any table of at most MaxRentals rows: each of them is
   reachable under Spec (partial updates write any field unchecked). *)

Rows ==
    [user : Customers, car : {1, 2}, start_date : Days, end_date : Days,
     status : RENTAL_STATUS]

Stores == UNION {[1 .. n -> Rows] : n \in 0 .. MaxRentals}

InitRequest ==
    /\ users = (1 :> "admin") @@ (2 :> "user")
    /\ locations = {1}
    /\ cars = (1 :> [status |-> "available", location |-> 1])
              @@ (2 :> [status |-> "available", location |-> 1])
    /\ rentals \in Stores
    /\ logins = <<>>
    /\ seq = [user |-> 2, location |-> 1, car |-> 2,
              rental |-> Cardinality(DOMAIN rentals), login |-> 0]
    /\ now = 0
    /\ request = NoRequest
    /\ response = NoResponse
    /\ inflight = <<>>

Log(op, who, id, data, partial) ==
    request' = [op |-> op, who |-> who, id |-> id, data |-> data,
                partial |-> partial, before |-> rentals]

CheckAvailableSaving(car, start_date, end_date, exclude_rental_id) ==
    /\ response' = Resp("call",
                        IF IsCarAvailable(rentals, car, start_date, end_date,
                                          exclude_rental_id)
                        THEN "available" ELSE "unavailable",
                        "", TRUE, NoId)
    /\ rentals' = rentals @@ (seq.rental + 1 :>
                    [user |-> 1, car |-> car, start_date |-> start_date,
                     end_date |-> end_date, status |-> "active"])
    /\ seq' = [seq EXCEPT !.rental = @ + 1]
    /\ UNCHANGED <<users, locations, cars, logins, now, inflight>>

(* Rental(car, start_date, end_date).is_car_available(exclude_rental_id)
   evaluated against the stored rentals. *)
CheckAvailable(car, start_date, end_date, exclude_rental_id) ==
    /\ response' = Resp("call",
                        IF IsCarAvailable(rentals, car, start_date, end_date,
                                          exclude_rental_id)
                        THEN "available" ELSE "unavailable",
                        "", TRUE, NoId)
    /\ UNCHANGED <<users, locations, cars, rentals, logins, seq, now, inflight>>

Candidates ==
    {[car |-> c, start_date |-> s, end_date |-> e] :
        c \in DOMAIN cars, s \in Days, e \in Days}

OneCheck ==
    /\ request = NoRequest
    /\ \E c \in {x \in Candidates : x.start_date < x.end_date},
          ex \in {NoId} \cup 1 .. MaxRentals :
        /\ CheckAvailable(c.car, c.start_date, c.end_date, ex)
        /\ Log("is_car_available", Anon, ex, c, FALSE)

OnePost ==
    /\ request = NoRequest
    /\ \E who \in Customers, d \in PostData :
        CreateRental(who, d) /\ Log("create", who, NoId, d, FALSE)

OnePut ==
    /\ request = NoRequest
    /\ \E who \in Customers, id \in DOMAIN rentals, d \in PutData :
        UpdateRental(who, id, d, FALSE) /\ Log("update", who, id, d, FALSE)

OnePatch ==
    /\ request = NoRequest
    /\ \E who \in Customers, id \in DOMAIN rentals, d \in PatchData(DOMAIN cars) :
        UpdateRental(who, id, d, TRUE) /\ Log("update", who, id, d, TRUE)

OneDelete ==
    /\ request = NoRequest
    /\ \E who \in Customers, id \in DOMAIN rentals :
        DeleteRental(who, id) /\ Log("delete", who, id, <<>>, FALSE)

OneTick ==
    /\ request = NoRequest
    /\ Tick
    /\ Log("tick", Anon, NoId, <<>>, FALSE)

NextRequest ==
    OneCheck \/ OnePost \/ OnePut \/ OnePatch \/ OneDelete \/ OneTick

SpecRequest == InitRequest /\ [][NextRequest]_vars

----------------------------------------------------------------------------
(* Properties of one request, checked under SpecRequest.  request.before is
   the Rental table the request found, rentals the table it left. *)

SameRows(ids) == \A j \in ids : j \in DOMAIN rentals /\ rentals[j] = request.before[j]

Unchanged == rentals = request.before

Dated == Has(request.data, "start_date") /\ Has(request.data, "end_date")

(* C3: is_car_available returns True iff no stored rental of the candidate's
   car is active, is not the excluded one and overlaps the candidate
   (r.start_date < end and r.end_date > start); a car without active rentals
   is available for every interval. *)
AvailableIffNoOverlap ==
    request.op = "is_car_available" =>
        LET c == request.data
            blocking == {i \in DOMAIN rentals :
                            /\ rentals[i].car = c.car
                            /\ rentals[i].status = "active"
                            /\ i # request.id
                            /\ rentals[i].start_date < c.end_date
                            /\ rentals[i].end_date > c.start_date}
        IN  /\ response.result \in {"available", "unavailable"}
            /\ (response.result = "available") <=> (blocking = {})
            /\ ActiveOn(rentals, c.car) = {} => response.result = "available"

AvailableIffNoOverlapWitness ==
    /\ request.op = "is_car_available"
    /\ response.result = "available"
    /\ request.id \in DOMAIN rentals
    /\ \E i \in DOMAIN rentals, j \in DOMAIN rentals :
         /\ i = request.id
         /\ j # i
         /\ rentals[i].car = request.data.car
         /\ rentals[i].status = "active"
         /\ RowsOverlap(rentals[i], request.data)
         /\ rentals[j].car = request.data.car
         /\ rentals[j].status # "active"
         /\ RowsOverlap(rentals[j], request.data)

(* C4: when the only active rental of a car is [s, e), a request for [e, x)
   with x > e, or for [w, s) with w < s, is reported available, and as a
   create request it is accepted: the rental is stored as a new row and the
   other rows are left as they were. *)
TouchingAccepted ==
    LET d == request.data
        touching == \E i \in DOMAIN request.before :
                        /\ ActiveOn(request.before, d.car) = {i}
                        /\ \/ d.start_date = request.before[i].end_date
                           \/ d.end_date = request.before[i].start_date
    IN  /\ (/\ request.op = "is_car_available"
            /\ request.id = NoId
            /\ touching)
           => response.result = "available"
        /\ (/\ request.op = "create"
            /\ d.start_date < d.end_date
            /\ touching)
           => /\ response.result = "created"
              /\ response.checked
              /\ response.id \notin DOMAIN request.before
              /\ DOMAIN rentals = DOMAIN request.before \cup {response.id}
              /\ rentals[response.id] =
                    [user |-> d.user, car |-> d.car, start_date |-> d.start_date,
                     end_date |-> d.end_date, status |-> "active"]
              /\ SameRows(DOMAIN request.before)

TouchingAcceptedWitness ==
    /\ request.op = "create"
    /\ response.result = "created"
    /\ \E i \in DOMAIN request.before :
         /\ ActiveOn(request.before, request.data.car) = {i}
         /\ rentals[i].start_date < rentals[i].end_date
         /\ rentals[response.id].start_date = rentals[i].end_date
         /\ rentals[response.id].status = "active"

(* C7: a create or update request whose start_date is not strictly before
   its end_date is rejected with "End date must be after start date" without
   is_car_available having been evaluated, and the stored rentals are the
   same after the request as before it. *)
BadDatesRejected ==
    (/\ request.op \in {"create", "update"}
     /\ Dated
     /\ request.data.start_date >= request.data.end_date)
    => /\ response.result = "invalid"
       /\ response.error = ErrDates
       /\ ~response.checked
       /\ Unchanged

BadDatesRejectedWitness ==
    /\ request.op = "update"
    /\ request.partial
    /\ Dated
    /\ request.data.start_date = request.data.end_date
    /\ response.error = ErrDates
    /\ rentals # <<>>

(* C8: a create or update request whose interval overlaps another active
   rental of the same car is rejected with "This car is not available for
   the selected dates"; no rental is created or modified. *)
ConflictRejected ==
    LET d == request.data
        car == IF request.op = "create" THEN d.car
               ELSE Get(d, "car", request.before[request.id].car)
    IN  (/\ request.op \in {"create", "update"}
         /\ Dated
         /\ d.start_date < d.end_date
         /\ \E i \in ActiveOn(request.before, car) \ {request.id} :
                /\ request.before[i].start_date < d.end_date
                /\ request.before[i].end_date > d.start_date)
        => /\ response.result = "invalid"
           /\ response.error = ErrUnavailable
           /\ Unchanged

ConflictRejectedWitness ==
    /\ request.op = "create"
    /\ response.error = ErrUnavailable
    /\ request.data.start_date = 1
    /\ request.data.end_date = 3
    /\ \E i \in DOMAIN rentals :
         /\ rentals[i].car = request.data.car
         /\ rentals[i].status = "active"
         /\ rentals[i].start_date = 0
         /\ rentals[i].end_date = 2

----------------------------------------------------------------------------
(* Properties of request sequences, checked under Spec. *)

OwnData(r) ==
    [user |-> r.user, car |-> r.car,
     start_date |-> r.start_date, end_date |-> r.end_date]

(* C5: an update of a stored active rental r that no other active rental of
   r's car overlaps, supplying r's own car, start_date and end_date, passes
   the availability check and is accepted. *)
SelfUpdateAccepted ==
    [][\A who \in Customers, id \in DOMAIN rentals :
        (/\ rentals[id].status = "active"
         /\ \A j \in ActiveOn(rentals, rentals[id].car) \ {id} :
                ~RowsOverlap(rentals[j], rentals[id])
         /\ UpdateRental(who, id, OwnData(rentals[id]), FALSE))
        => /\ response'.method = "PUT"
           /\ response'.result = "updated"
           /\ response'.checked
           /\ response'.id = id]_vars

----------------------------------------------------------------------------
(* The life of a rental: requests that create rentals, set their status and
   delete them, while time passes. *)

LifeIntervals == {<<0, 1>>, <<1, 2>>}

LifeData ==
    {[user |-> u, car |-> 1, start_date |-> p[1], end_date |-> p[2]] :
        u \in Customers, p \in LifeIntervals}

LifeUpdates ==
    {[data |-> [status |-> st], partial |-> TRUE] : st \in RENTAL_STATUS}
    \cup {[data |-> [start_date |-> p[1], end_date |-> p[2]], partial |-> TRUE] :
            p \in LifeIntervals}
    \cup {[data |-> [user |-> d.user, car |-> d.car, start_date |-> d.start_date,
                     end_date |-> d.end_date, status |-> st],
           partial |-> FALSE] : d \in LifeData, st \in RENTAL_STATUS}

LifePost ==
    /\ seq.rental < MaxRentals
    /\ \E who \in Customers, d \in LifeData :
        CreateRental(who, d) /\ UNCHANGED request

LifeUpdate ==
    \E who \in Customers, id \in DOMAIN rentals, u \in LifeUpdates :
        UpdateRental(who, id, u.data, u.partial) /\ UNCHANGED request

LifeDelete ==
    \E who \in Customers, id \in DOMAIN rentals :
        DeleteRental(who, id) /\ UNCHANGED request

LifeTick == Tick /\ UNCHANGED request

NextLife == LifePost \/ LifeUpdate \/ LifeDelete \/ LifeTick

SpecLife == Init /\ [][NextLife]_vars

StatusChanged(i) ==
    /\ i \in DOMAIN rentals
    /\ i \in DOMAIN rentals'
    /\ rentals'[i].status # rentals[i].status

(* C9 as claimed: a rental's status changes only by an update request and
   only from active to completed or cancelled. *)
StatusOnlyForward ==
    [][\A i \in DOMAIN rentals :
        StatusChanged(i)
        => /\ response'.result = "updated"
           /\ rentals[i].status = "active"
           /\ rentals'[i].status \in {"completed", "cancelled"}]_vars

(* C9 as amended: a rental's status changes only by an accepted update
   request for that rental that supplies the new status, which may be any of
   the three (a completed or cancelled rental can be made active again); no
   other request changes it and neither does the passing of time. *)
StatusOnlyByUpdate ==
    [][\A i \in DOMAIN rentals :
        StatusChanged(i)
        => /\ response'.result = "updated"
           /\ response'.id = i
           /\ \E who \in Customers, u \in LifeUpdates :
                /\ Has(u.data, "status")
                /\ u.data.status = rentals'[i].status
                /\ UpdateRental(who, i, u.data, u.partial)]_vars

StatusOnlyByUpdateWitness ==
    /\ response.result = "updated"
    /\ response.id \in DOMAIN rentals
    /\ rentals[response.id].status = "completed"
    /\ rentals[response.id].end_date < now

----------------------------------------------------------------------------
(* Create requests served by concurrent workers.  CreateModelMixin.create
   calls serializer.is_valid() and then perform_create(); no transaction or
   lock joins the two, so another worker's request can run in between. *)

Workers == {1, 2}

Idle == [stage |-> "idle"]

(* is_valid(): field validation and validate() against the rentals stored
   at this moment. *)
BeginCreate(w, who, data) ==
    /\ inflight[w].stage # "validated"
    /\ IF ~IsAuthenticated(who)
       THEN Reject("POST", "denied", "", FALSE) /\ UNCHANGED inflight
       ELSE IF ~FieldsValid(data, FALSE)
            THEN Reject("POST", "invalid", "", FALSE) /\ UNCHANGED inflight
            ELSE LET v == Validate(rentals, NoId, data) IN
                 IF v.error # ""
                 THEN Reject("POST", "invalid", v.error, v.checked)
                      /\ UNCHANGED inflight
                 ELSE /\ inflight' = [inflight EXCEPT ![w] =
                            [stage |-> "validated", who |-> who, data |-> data,
                             checked |-> v.checked]]
                      /\ UNCHANGED <<users, locations, cars, rentals, logins,
                                     seq, now, response>>

(* perform_create() with the data validated earlier. *)
FinishCreate(w) ==
    /\ inflight[w].stage = "validated"
    /\ PerformCreate(inflight[w].who, inflight[w].data, inflight[w].checked)
    /\ inflight' = [inflight EXCEPT ![w] =
            IF response'.result = "created"
            THEN [stage |-> "saved", id |-> response'.id]
            ELSE Idle]

InitConc ==
    /\ users = (1 :> "admin") @@ (2 :> "user")
    /\ locations = {1}
    /\ cars = (1 :> [status |-> "available", location |-> 1])
              @@ (2 :> [status |-> "available", location |-> 1])
    /\ rentals = <<>>
    /\ logins = <<>>
    /\ seq = [user |-> 2, location |-> 1, car |-> 2, rental |-> 0, login |-> 0]
    /\ now = 0
    /\ request = NoRequest
    /\ response = NoResponse
    /\ inflight = [w \in Workers |-> Idle]

Validated == {w \in Workers : inflight[w].stage = "validated"}

ConcBegin ==
    /\ seq.rental + Cardinality(Validated) < MaxRentals
    /\ \E w \in Workers, who \in Customers, d \in PostData :
        BeginCreate(w, who, d) /\ UNCHANGED request

ConcFinish == \E w \in Workers : FinishCreate(w) /\ UNCHANGED request

NextConc == ConcBegin \/ ConcFinish

SpecConc == InitConc /\ [][NextConc]_vars

(* C2: no interleaving of two create requests lets both availability checks
   succeed and both rentals be stored active on the same car with
   overlapping intervals. *)
NoRacingOverlap ==
    \A v \in Workers, w \in Workers :
        (/\ v # w
         /\ inflight[v].stage = "saved"
         /\ inflight[w].stage = "saved")
        => LET a == rentals[inflight[v].id]
               b == rentals[inflight[w].id]
           IN ~(/\ a.car = b.car
                /\ a.status = "active"
                /\ b.status = "active"
                /\ RowsOverlap(a, b))

----------------------------------------------------------------------------
(* The foreign keys: users, cars and locations are deleted while rentals
   are created, moved to another user or car and deleted, and users log in.
   Rental.user, Rental.car, LoginHistory.user and Car.location are declared
   on_delete=CASCADE. *)

SAFE_METHODS == {"GET", "HEAD", "OPTIONS"}

(* IsAdminOrReadOnly.has_permission *)
IsAuthenticatedOrReadOnly(who, method) ==
    \/ method \in SAFE_METHODS
    \/ IsAuthenticated(who)

IsAdminOrReadOnly(who, method) ==
    \/ method \in SAFE_METHODS
    \/ (IsAuthenticated(who) /\ users[who] = "admin")

RentalsOfUsers(U) == {i \in DOMAIN rentals : rentals[i].user \in U}

RentalsOfCars(C) == {i \in DOMAIN rentals : rentals[i].car \in C}

LoginsOfUsers(U) == {l \in DOMAIN logins : logins[l].user \in U}

DeleteUserNoCascade(who, u) ==
    /\ IF ~IsAdminOrReadOnly(who, "DELETE")
       THEN Reject("DELETE user", "denied", "", FALSE)
       ELSE IF u \notin DOMAIN users
            THEN Reject("DELETE user", "not_found", "", FALSE)
            ELSE /\ users' = Restrict(users, DOMAIN users \ {u})
                 /\ logins' = Restrict(logins, DOMAIN logins \ LoginsOfUsers({u}))
                 /\ response' = Resp("DELETE user", "deleted", "", FALSE, u)
                 /\ UNCHANGED <<locations, cars, rentals, seq, now>>
    /\ UNCHANGED inflight

(* DELETE /users/<u>/ (UserViewSet). *)
DeleteUser(who, u) ==
    /\ IF ~IsAdminOrReadOnly(who, "DELETE")
       THEN Reject("DELETE user", "denied", "", FALSE)
       ELSE IF u \notin DOMAIN users
            THEN Reject("DELETE user", "not_found", "", FALSE)
            ELSE /\ users' = Restrict(users, DOMAIN users \ {u})
                 /\ rentals' = Restrict(rentals, DOMAIN rentals \ RentalsOfUsers({u}))
                 /\ logins' = Restrict(logins, DOMAIN logins \ LoginsOfUsers({u}))
                 /\ response' = Resp("DELETE user", "deleted", "", FALSE, u)
                 /\ UNCHANGED <<locations, cars, seq, now>>
    /\ UNCHANGED inflight

(* DELETE /cars/<c>/ (CarViewSet). *)
DeleteCar(who, c) ==
    /\ IF ~IsAuthenticated(who) \/ ~IsAdminOrReadOnly(who, "DELETE")
       THEN Reject("DELETE car", "denied", "", FALSE)
       ELSE IF c \notin DOMAIN cars
            THEN Reject("DELETE car", "not_found", "", FALSE)
            ELSE /\ cars' = Restrict(cars, DOMAIN cars \ {c})
                 /\ rentals' = Restrict(rentals, DOMAIN rentals \ RentalsOfCars({c}))
                 /\ response' = Resp("DELETE car", "deleted", "", FALSE, c)
                 /\ UNCHANGED <<users, locations, logins, seq, now>>
    /\ UNCHANGED inflight

(* DELETE /locations/<l>/ (LocationViewSet): the location's cars go with it,
   and their rentals with them. *)
DeleteLocation(who, l) ==
    /\ IF ~IsAuthenticated(who) \/ ~IsAdminOrReadOnly(who, "DELETE")
       THEN Reject("DELETE location", "denied", "", FALSE)
       ELSE IF l \notin locations
            THEN Reject("DELETE location", "not_found", "", FALSE)
            ELSE LET gone == {c \in DOMAIN cars : cars[c].location = l} IN
                 /\ locations' = locations \ {l}
                 /\ cars' = Restrict(cars, DOMAIN cars \ gone)
                 /\ rentals' = Restrict(rentals, DOMAIN rentals \ RentalsOfCars(gone))
                 /\ response' = Resp("DELETE location", "deleted", "", FALSE, l)
                 /\ UNCHANGED <<users, logins, seq, now>>
    /\ UNCHANGED inflight

(* LoginView.post.  username is a user id (NoId when the field is missing or
   empty); every user's password is "pw", and "" is a missing password. *)
Authenticate(username, password) ==
    IF username \in DOMAIN users /\ password = "pw" THEN username ELSE NoId

LoginRecordsAttempts(username, password) ==
    /\ IF username = NoId \/ password = ""
       THEN Reject("POST login", "bad_request", "", FALSE)
       ELSE LET user == Authenticate(username, password)
                id == seq.login + 1
            IN  IF username \in DOMAIN users
                THEN /\ logins' = logins @@ (id :> [user |-> username, timestamp |-> now])
                     /\ seq' = [seq EXCEPT !.login = id]
                     /\ response' = IF user # NoId
                                    THEN Resp("POST login", "ok", "", FALSE, user)
                                    ELSE Resp("POST login", "unauthorized", "", FALSE, NoId)
                     /\ UNCHANGED <<users, locations, cars, rentals, now>>
                ELSE Reject("POST login", "unauthorized", "", FALSE)
    /\ UNCHANGED inflight

Login(username, password) ==
    /\ IF username = NoId \/ password = ""
       THEN Reject("POST login", "bad_request", "", FALSE)
       ELSE LET user == Authenticate(username, password) IN
            IF user # NoId
            THEN LET id == seq.login + 1 IN
                 /\ logins' = logins @@ (id :> [user |-> user, timestamp |-> now])
                 /\ seq' = [seq EXCEPT !.login = id]
                 /\ response' = Resp("POST login", "ok", "", FALSE, user)
                 /\ UNCHANGED <<users, locations, cars, rentals, now>>
            ELSE Reject("POST login", "unauthorized", "", FALSE)
    /\ UNCHANGED inflight

People == {1, 2}

RefData ==
    {[user |-> u, car |-> c, start_date |-> p[1], end_date |-> p[2]] :
        u \in People, c \in {1, 2}, p \in LifeIntervals}

RefPost ==
    /\ seq.rental < MaxRentals
    /\ \E who \in People, d \in RefData :
        CreateRental(who, d) /\ UNCHANGED request

RefPatch ==
    \E who \in People, id \in DOMAIN rentals,
       d \in {[user |-> u] : u \in People} \cup {[car |-> c] : c \in {1, 2}} :
        UpdateRental(who, id, d, TRUE) /\ UNCHANGED request

RefDeleteRental ==
    \E who \in People, id \in DOMAIN rentals :
        DeleteRental(who, id) /\ UNCHANGED request

RefDeleteUser ==
    \E who \in People, u \in People : DeleteUser(who, u) /\ UNCHANGED request

RefDeleteCar ==
    \E who \in People, c \in {1, 2} : DeleteCar(who, c) /\ UNCHANGED request

RefDeleteLocation ==
    \E who \in People, l \in {1} : DeleteLocation(who, l) /\ UNCHANGED request

RefLogin ==
    /\ seq.login < MaxLogins
    /\ \E username \in {NoId} \cup People, password \in {"", "pw", "bad"} :
        Login(username, password) /\ UNCHANGED request

NextRef ==
    \/ RefPost \/ RefPatch \/ RefDeleteRental
    \/ RefDeleteUser \/ RefDeleteCar \/ RefDeleteLocation
    \/ RefLogin

SpecRef == Init /\ [][NextRef]_vars

RefIntegrity ==
    /\ \A i \in DOMAIN rentals :
        rentals[i].user \in DOMAIN users /\ rentals[i].car \in DOMAIN cars
    /\ \A l \in DOMAIN logins : logins[l].user \in DOMAIN users

Deleted(method) == response'.method = method /\ response'.result = "deleted"

(* C10: every rental references an existing user and an existing car and
   every login-history entry an existing user; deleting a user deletes that
   user's rentals and login-history entries, deleting a car deletes that
   car's rentals, and all other rows are left as they were. *)
CascadeKeepsReferences ==
    /\ []RefIntegrity
    /\ [][/\ Deleted("DELETE user") =>
                LET u == response'.id IN
                /\ u \in DOMAIN users
                /\ users' = Restrict(users, DOMAIN users \ {u})
                /\ rentals' = Restrict(rentals,
                                {i \in DOMAIN rentals : rentals[i].user # u})
                /\ logins' = Restrict(logins,
                                {l \in DOMAIN logins : logins[l].user # u})
                /\ UNCHANGED <<cars, locations>>
          /\ Deleted("DELETE car") =>
                LET c == response'.id IN
                /\ c \in DOMAIN cars
                /\ cars' = Restrict(cars, DOMAIN cars \ {c})
                /\ rentals' = Restrict(rentals,
                                {i \in DOMAIN rentals : rentals[i].car # c})
                /\ UNCHANGED <<users, logins, locations>>]_vars

CascadeKeepsReferencesWitness ==
    /\ response.method = "DELETE user"
    /\ response.result = "deleted"
    /\ response.id = 2
    /\ seq.rental = 2
    /\ seq.login = 2
    /\ Cardinality(DOMAIN rentals) = 1
    /\ Cardinality(DOMAIN logins) = 1

----------------------------------------------------------------------------
(* dashboard_data: the three aggregations of GET /dashboard/. *)

LoginLimit == 10
RentalLimit == 10
ActivityLimit == 10
PopularLimit == 5

(* ORDER BY leaves the order of rows with equal keys to the database: the
   rows come out by ascending or by descending primary key. *)
TieOrders == {"asc", "desc"}

Take(s, n) == SubSeq(s, 1, IF Len(s) < n THEN Len(s) ELSE n)

(* Row i precedes row j in table.order_by('-field'). *)
Precedes(table, field, tie, i, j) ==
    \/ table[i][field] > table[j][field]
    \/ /\ table[i][field] = table[j][field]
       /\ IF tie = "asc" THEN i < j ELSE i > j

(* table.order_by('-field'): the ids of the rows, greatest field first. *)
OrderByDesc(table, field, tie) ==
    [p \in 1 .. Cardinality(DOMAIN table) |->
        CHOOSE i \in DOMAIN table :
            Cardinality({j \in DOMAIN table : Precedes(table, field, tie, j, i)})
                = p - 1]

(* list.sort(key=..., reverse=True) is stable: entries with equal keys keep
   their order. *)
SortDescending(s, field) ==
    [p \in 1 .. Len(s) |->
        s[CHOOSE a \in 1 .. Len(s) :
            Cardinality({b \in 1 .. Len(s) :
                \/ s[b][field] > s[a][field]
                \/ s[b][field] = s[a][field] /\ b < a}) = p - 1]]

CountCars(status) ==
    Cardinality({c \in DOMAIN cars : cars[c].status = status})

CountRentals(status) ==
    Cardinality({i \in DOMAIN rentals : rentals[i].status = status})

StatsRentedAsActive ==
    [cars |-> Cardinality(DOMAIN cars),
     availableCars |-> CountCars("available"),
     rentedCars |-> CountRentals("active"),
     maintenanceCars |-> CountCars("maintenance"),
     rentals |-> Cardinality(DOMAIN rentals),
     activeRentals |-> CountRentals("active"),
     completedRentals |-> CountRentals("completed"),
     users |-> Cardinality(DOMAIN users)]

Stats ==
    [cars |-> Cardinality(DOMAIN cars),
     availableCars |-> CountCars("available"),
     rentedCars |-> CountCars("rented"),
     maintenanceCars |-> CountCars("maintenance"),
     rentals |-> Cardinality(DOMAIN rentals),
     activeRentals |-> CountRentals("active"),
     completedRentals |-> CountRentals("completed"),
     users |-> Cardinality(DOMAIN users)]

LoginEntry(l) ==
    [type |-> "login", userId |-> logins[l].user, timestamp |-> logins[l].timestamp]

RentalEntry(i) ==
    [type |-> "rental", userId |-> rentals[i].user, carId |-> rentals[i].car,
     status |-> rentals[i].status, timestamp |-> rentals[i].start_date]

ActivityNoCut(tl, tr) ==
    LET login_activities == Take(OrderByDesc(logins, "timestamp", tl), LoginLimit)
        login_data == [k \in 1 .. Len(login_activities) |->
                          LoginEntry(login_activities[k])]
        recent_rentals == Take(OrderByDesc(rentals, "start_date", tr), RentalLimit)
        rental_data == [k \in 1 .. Len(recent_rentals) |->
                           RentalEntry(recent_rentals[k])]
    IN  SortDescending(login_data \o rental_data, "timestamp")

ActivityOldestSources(tl, tr) ==
    LET all_logins == OrderByDesc(logins, "timestamp", tl)
        login_activities ==
            SubSeq(all_logins,
                   IF Len(all_logins) > LoginLimit
                   THEN Len(all_logins) - LoginLimit + 1 ELSE 1,
                   Len(all_logins))
        login_data == [k \in 1 .. Len(login_activities) |->
                          LoginEntry(login_activities[k])]
        all_rentals == OrderByDesc(rentals, "start_date", tr)
        recent_rentals ==
            SubSeq(all_rentals,
                   IF Len(all_rentals) > RentalLimit
                   THEN Len(all_rentals) - RentalLimit + 1 ELSE 1,
                   Len(all_rentals))
        rental_data == [k \in 1 .. Len(recent_rentals) |->
                           RentalEntry(recent_rentals[k])]
        all_activities == SortDescending(login_data \o rental_data, "timestamp")
    IN  Take(all_activities, ActivityLimit)

Activity(tl, tr) ==
    LET login_activities == Take(OrderByDesc(logins, "timestamp", tl), LoginLimit)
        login_data == [k \in 1 .. Len(login_activities) |->
                          LoginEntry(login_activities[k])]
        recent_rentals == Take(OrderByDesc(rentals, "start_date", tr), RentalLimit)
        rental_data == [k \in 1 .. Len(recent_rentals) |->
                           RentalEntry(recent_rentals[k])]
        all_activities == SortDescending(login_data \o rental_data, "timestamp")
    IN  Take(all_activities, ActivityLimit)

(* The loop over the rentals: car_rental_count as the list of its items, in
   insertion order. *)
RECURSIVE CarRentalCount(_, _, _)
CarRentalCount(store, ids, acc) ==
    IF ids = <<>> THEN acc
    ELSE LET car_id == store[Head(ids)].car IN
         IF \E k \in 1 .. Len(acc) : acc[k].car_id = car_id
         THEN CarRentalCount(store, Tail(ids),
                [k \in 1 .. Len(acc) |->
                    IF acc[k].car_id = car_id
                    THEN [acc[k] EXCEPT !.rental_count = @ + 1]
                    ELSE acc[k]])
         ELSE CarRentalCount(store, Tail(ids),
                Append(acc, [car_id |-> car_id, rental_count |-> 1]))

CarEntry(item) ==
    [id |-> item.car_id, status |-> cars[item.car_id].status,
     rentalCount |-> item.rental_count]

PopularCarsWithIdle(ta) ==
    LET counted == CarRentalCount(rentals, OrderByDesc(rentals, "start_date", ta), <<>>)
        idle == OrderByDesc([c \in {x \in DOMAIN cars :
                                \A i \in DOMAIN rentals : rentals[i].car # x}
                             |-> [id |-> c]], "id", "asc")
        car_rental_count == counted \o
            [k \in 1 .. Len(idle) |-> [car_id |-> idle[k], rental_count |-> 0]]
        sorted_cars == SortDescending(car_rental_count, "rental_count")
        top == Take(sorted_cars, PopularLimit)
    IN  [k \in 1 .. Len(top) |-> CarEntry(top[k])]

PopularCarsUnsorted(ta) ==
    LET car_rental_count ==
            CarRentalCount(rentals, OrderByDesc(rentals, "start_date", ta), <<>>)
        top == Take(car_rental_count, PopularLimit)
    IN  [k \in 1 .. Len(top) |-> CarEntry(top[k])]

(* Rental.objects.all() comes in Meta.ordering, '-start_date'. *)
PopularCars(ta) ==
    LET car_rental_count ==
            CarRentalCount(rentals, OrderByDesc(rentals, "start_date", ta), <<>>)
        sorted_cars == SortDescending(car_rental_count, "rental_count")
        top == Take(sorted_cars, PopularLimit)
    IN  [k \in 1 .. Len(top) |-> CarEntry(top[k])]

(* GET /dashboard/ served in one piece; tl, tr and ta are the orders in
   which the three ordered queries return rows with equal keys. *)
DashboardData(who, tl, tr, ta) ==
    /\ IF ~IsAuthenticated(who)
       THEN Reject("GET dashboard", "denied", "", FALSE)
       ELSE /\ response' = Resp("GET dashboard", "ok", "", FALSE, NoId)
                           @@ [stats |-> Stats,
                               activity |-> Activity(tl, tr),
                               popularCars |-> PopularCars(ta)]
            /\ UNCHANGED <<users, locations, cars, rentals, logins, seq, now>>
    /\ UNCHANGED inflight

----------------------------------------------------------------------------
(* The dashboard over a changing fleet: an admin creates rentals of every
   status, sets car statuses, deletes cars and the other user; dashboards
   are served and is_car_available is called in between. *)

MaxStatRentals == 3

(* PATCH /cars/<c>/ {status} (CarViewSet). *)
UpdateCar(who, c, status) ==
    /\ IF ~IsAuthenticated(who) \/ ~IsAdminOrReadOnly(who, "PATCH")
       THEN Reject("PATCH car", "denied", "", FALSE)
       ELSE IF c \notin DOMAIN cars
            THEN Reject("PATCH car", "not_found", "", FALSE)
            ELSE IF status \notin CAR_STATUS
                 THEN Reject("PATCH car", "invalid", "", FALSE)
                 ELSE /\ cars' = [cars EXCEPT ![c].status = status]
                      /\ response' = Resp("PATCH car", "updated", "", FALSE, c)
                      /\ UNCHANGED <<users, locations, rentals, logins, seq, now>>
    /\ UNCHANGED inflight

StatData ==
    {[user |-> 1, car |-> c, start_date |-> 0, end_date |-> 1, status |-> st] :
        c \in {1, 2}, st \in RENTAL_STATUS}

StatPost ==
    /\ seq.rental < MaxStatRentals
    /\ \E d \in StatData : CreateRental(1, d) /\ UNCHANGED request

StatUpdateCar ==
    \E c \in {1, 2}, st \in CAR_STATUS : UpdateCar(1, c, st) /\ UNCHANGED request

StatDeleteCar == \E c \in {1, 2} : DeleteCar(1, c) /\ UNCHANGED request

StatDeleteUser == DeleteUser(1, 2) /\ UNCHANGED request

StatDashboard ==
    \E who \in People, t \in TieOrders :
        DashboardData(who, t, t, t) /\ UNCHANGED request

StatCheck ==
    \E c \in {1, 2}, p \in LifeIntervals, ex \in {NoId, 1} :
        CheckAvailable(c, p[1], p[2], ex) /\ UNCHANGED request

NextStats ==
    \/ StatPost \/ StatUpdateCar \/ StatDeleteCar \/ StatDeleteUser
    \/ StatDashboard \/ StatCheck

SpecStats == Init /\ [][NextStats]_vars

Served == response.method = "GET dashboard" /\ response.result = "ok"

(* C11: the stats of a dashboard response are the numbers of cars, of cars
   of each status, of rentals, of active and of completed rentals and of
   users in the store; 2 cars (1 available, 1 rented), 3 rentals (1 active,
   2 completed) and 1 user give cars 2, availableCars 1, rentedCars 1,
   maintenanceCars 0, rentals 3, activeRentals 1, completedRentals 2,
   users 1. *)
StatsAreCounts ==
    Served =>
        LET st == response.stats
            CarsIn(x) == {c \in DOMAIN cars : cars[c].status = x}
            RentalsIn(x) == {i \in DOMAIN rentals : rentals[i].status = x}
        IN  /\ st.cars = Cardinality(DOMAIN cars)
            /\ st.availableCars = Cardinality(CarsIn("available"))
            /\ st.rentedCars = Cardinality(CarsIn("rented"))
            /\ st.maintenanceCars = Cardinality(CarsIn("maintenance"))
            /\ st.rentals = Cardinality(DOMAIN rentals)
            /\ st.activeRentals = Cardinality(RentalsIn("active"))
            /\ st.completedRentals = Cardinality(RentalsIn("completed"))
            /\ st.users = Cardinality(DOMAIN users)
            /\ (/\ Cardinality(DOMAIN cars) = 2
                /\ Cardinality(CarsIn("available")) = 1
                /\ Cardinality(CarsIn("rented")) = 1
                /\ Cardinality(DOMAIN rentals) = 3
                /\ Cardinality(RentalsIn("active")) = 1
                /\ Cardinality(RentalsIn("completed")) = 2
                /\ Cardinality(DOMAIN users) = 1)
               => st = [cars |-> 2, availableCars |-> 1, rentedCars |-> 1,
                        maintenanceCars |-> 0, rentals |-> 3, activeRentals |-> 1,
                        completedRentals |-> 2, users |-> 1]

StatsAreCountsWitness ==
    /\ Served
    /\ response.stats.cars = 2
    /\ response.stats.availableCars = 1
    /\ response.stats.rentedCars = 1
    /\ response.stats.rentals = 3
    /\ response.stats.activeRentals = 1
    /\ response.stats.completedRentals = 2
    /\ response.stats.users = 1

(* C12: the stats of a dashboard response hold a count for each rental
   status, cancelled included, and the three counts add up to the total
   number of rentals. *)
StatsCoverEveryStatus ==
    Served =>
        LET st == response.stats IN
        /\ {"activeRentals", "completedRentals", "cancelledRentals"}
              \subseteq DOMAIN st
        /\ st.activeRentals + st.completedRentals + st.cancelledRentals
              = st.rentals

(* C18: on a store without cars, rentals and login events a dashboard
   request is served with all car and rental counts 0, an empty activity
   list and an empty popularCars list, and is_car_available answers True. *)
EmptyStoreIsNoError ==
    (DOMAIN cars = {} /\ DOMAIN rentals = {} /\ DOMAIN logins = {}) =>
        /\ response.method = "GET dashboard" /\ response.result # "denied" =>
              /\ response.result = "ok"
              /\ response.stats.cars = 0
              /\ response.stats.availableCars = 0
              /\ response.stats.rentedCars = 0
              /\ response.stats.maintenanceCars = 0
              /\ response.stats.rentals = 0
              /\ response.stats.activeRentals = 0
              /\ response.stats.completedRentals = 0
              /\ response.activity = <<>>
              /\ response.popularCars = <<>>
        /\ response.method = "call" => response.result = "available"

EmptyStoreIsNoErrorWitness ==
    /\ DOMAIN cars = {}
    /\ DOMAIN rentals = {}
    /\ DOMAIN logins = {}
    /\ seq.rental > 0
    /\ response.method = "call"
    /\ response.result = "available"

(* C19: a call of is_car_available, whatever its arguments and answer, and
   a dashboard request leave the users, locations, cars, rentals and
   login-history entries as they were; no row is added for the candidate. *)
ReadsLeaveStoreUnchanged ==
    [][response'.method \in {"call", "GET dashboard"}
       => UNCHANGED <<users, locations, cars, rentals, logins, seq>>]_vars

ReadsLeaveStoreUnchangedWitness ==
    /\ response.method = "call"
    /\ response.result = "unavailable"
    /\ DOMAIN rentals # {}

----------------------------------------------------------------------------
(* The activity feed: user 2 logs in and the admin books rentals that start
   on the current day, day after day, until more events are stored than the
   feed shows. *)

MaxActDay == 1
MaxEvents == 11

ActLogin ==
    /\ seq.login + seq.rental < MaxEvents
    /\ Login(2, "pw")
    /\ UNCHANGED request

ActPost ==
    /\ seq.login + seq.rental < MaxEvents
    /\ CreateRental(1, [user |-> 1, car |-> 1, start_date |-> now,
                        end_date |-> now + 1, status |-> "completed"])
    /\ UNCHANGED request

ActTick == now < MaxActDay /\ Tick /\ UNCHANGED request

ActDashboard ==
    \E tl \in TieOrders, tr \in TieOrders :
        DashboardData(1, tl, tr, tr) /\ UNCHANGED request

NextActivity == ActLogin \/ ActPost \/ ActTick \/ ActDashboard

SpecActivity == Init /\ [][NextActivity]_vars

(* C14: with L login events and R rentals stored, the activity list of a
   dashboard response has min(10, L + R) entries, exactly 10 when
   L + R > 10, and their timestamps never increase along the list. *)
ActivityIsLatestTen ==
    Served =>
        LET a == response.activity
            events == Cardinality(DOMAIN logins) + Cardinality(DOMAIN rentals)
        IN  /\ Len(a) = IF events < 10 THEN events ELSE 10
            /\ events > 10 => Len(a) = 10
            /\ \A k \in 1 .. Len(a) - 1 : a[k].timestamp >= a[k + 1].timestamp

ActivityIsLatestTenWitness ==
    /\ Served
    /\ Cardinality(DOMAIN logins) + Cardinality(DOMAIN rentals) > 10
    /\ Len(response.activity) = 10
    /\ response.activity[1].timestamp > response.activity[10].timestamp
    /\ \E j \in 1 .. 10, k \in 1 .. 10 :
         /\ response.activity[j].type = "login"
         /\ response.activity[k].type = "rental"
         /\ response.activity[j].timestamp = response.activity[k].timestamp

----------------------------------------------------------------------------
(* The popularity ranking: the admin adds cars to the fleet and books
   rentals car by car (the first MaxRentals of any status when on car 1,
   completed ones otherwise), until more cars have rentals than the ranking
   shows. *)

MaxCars == 6
MaxPopRentals == 7

(* POST /cars/ (CarViewSet). *)
CreateCar(who, status, location) ==
    /\ IF ~IsAuthenticated(who) \/ ~IsAdminOrReadOnly(who, "POST")
       THEN Reject("POST car", "denied", "", FALSE)
       ELSE IF status \notin CAR_STATUS \/ location \notin locations
            THEN Reject("POST car", "invalid", "", FALSE)
            ELSE LET id == seq.car + 1 IN
                 /\ cars' = cars @@ (id :> [status |-> status, location |-> location])
                 /\ seq' = [seq EXCEPT !.car = id]
                 /\ response' = Resp("POST car", "created", "", FALSE, id)
                 /\ UNCHANGED <<users, locations, rentals, logins, now>>
    /\ UNCHANGED inflight

PopAddCar ==
    /\ seq.car < MaxCars
    /\ CreateCar(1, "available", 1)
    /\ UNCHANGED request

PopPost ==
    /\ seq.rental < MaxPopRentals
    /\ \E c \in DOMAIN cars, st \in RENTAL_STATUS :
        /\ \A i \in DOMAIN rentals : rentals[i].car <= c
        /\ (c # 1 \/ seq.rental >= MaxRentals) => st = "completed"
        /\ CreateRental(1, [user |-> 1, car |-> c, start_date |-> 0,
                            end_date |-> 1, status |-> st])
    /\ UNCHANGED request

PopDashboard ==
    \E ta \in TieOrders : DashboardData(1, ta, ta, ta) /\ UNCHANGED request

NextPopular == PopAddCar \/ PopPost \/ PopDashboard

SpecPopular == Init /\ [][NextPopular]_vars

RentalsOf(c) == {i \in DOMAIN rentals : rentals[i].car = c}

(* C15: popularCars has at most 5 entries, one per car, each with the
   number of the car's rentals as rentalCount, in order of non-increasing
   rentalCount; no car outside the list has more rentals than a car in it,
   and a car with 2 rentals comes before a car with 1. *)
PopularCarsAreTopFive ==
    Served =>
        LET p == response.popularCars
            listed == {p[k].id : k \in 1 .. Len(p)}
        IN  /\ Len(p) <= 5
            /\ \A j \in 1 .. Len(p), k \in 1 .. Len(p) : j # k => p[j].id # p[k].id
            /\ \A k \in 1 .. Len(p) :
                 /\ p[k].id \in DOMAIN cars
                 /\ p[k].rentalCount = Cardinality(RentalsOf(p[k].id))
            /\ \A k \in 1 .. Len(p) - 1 : p[k].rentalCount >= p[k + 1].rentalCount
            /\ \A c \in DOMAIN cars \ listed, k \in 1 .. Len(p) :
                 Cardinality(RentalsOf(c)) <= p[k].rentalCount
            /\ \A j \in 1 .. Len(p), k \in 1 .. Len(p) :
                 (p[j].rentalCount = 2 /\ p[k].rentalCount = 1) => j < k

PopularCarsAreTopFiveWitness ==
    /\ Served
    /\ Len(response.popularCars) = 5
    /\ response.popularCars[1].rentalCount = 2
    /\ response.popularCars[1].id > 1
    /\ response.popularCars[2].rentalCount = 1
    /\ Cardinality({c \in DOMAIN cars : RentalsOf(c) # {}}) > 5

(* C16: every popularCars entry has rentalCount >= 1: a car without
   rentals is not listed, also when fewer than 5 cars have rentals. *)
ZeroRentalCarsAbsent ==
    Served =>
        \A k \in 1 .. Len(response.popularCars) :
            /\ response.popularCars[k].rentalCount >= 1
            /\ RentalsOf(response.popularCars[k].id) # {}

ZeroRentalCarsAbsentWitness ==
    /\ Served
    /\ Cardinality(DOMAIN cars) > 5
    /\ Len(response.popularCars) \in 1 .. 4
    /\ \E c \in DOMAIN cars : RentalsOf(c) = {}

(* C17: two dashboard requests served on the same stored users, cars,
   rentals and login events return the same activity list and the same
   popularCars list, entry by entry, also when events share a timestamp at
   the 10-entry cut and cars share a rental count at the 5-entry cut. *)
DashboardIsDeterministic ==
    [][(Served /\ Served')
       => /\ response'.activity = response.activity
          /\ response'.popularCars = response.popularCars]_vars

----------------------------------------------------------------------------
(* One dashboard request served query by query while other requests write.
   dashboard_data opens no transaction: each count, each list query and each
   Car.objects.get is a statement of its own, and writes of other workers
   commit in between.  inflight is the request's position and the values it
   has read so far; request.seen collects the stats of every database state
   that existed while the request was being served and request.writes
   counts the writes committed meanwhile, at most MaxSkew. *)

MaxSkew == 2

InitDash ==
    /\ users = (1 :> "admin") @@ (2 :> "user")
    /\ locations = {1}
    /\ cars = (1 :> [status |-> "available", location |-> 1])
              @@ (2 :> [status |-> "available", location |-> 1])
    /\ rentals = <<>>
    /\ logins = <<>>
    /\ seq = [user |-> 2, location |-> 1, car |-> 2, rental |-> 0, login |-> 0]
    /\ now = 0
    /\ request = NoRequest
    /\ response = NoResponse
    /\ inflight = [pc |-> "idle"]

Store == <<users, locations, cars, rentals, logins, seq, now>>

(* The permission check; the request then starts with the stats. *)
DashBegin(who) ==
    /\ inflight.pc = "idle"
    /\ request' = [op |-> "dashboard", seen |-> {Stats}, writes |-> 0]
    /\ IF ~IsAuthenticated(who)
       THEN Reject("GET dashboard", "denied", "", FALSE)
            /\ inflight' = [pc |-> "done"]
       ELSE /\ inflight' = [pc |-> "stats", counts |-> <<>>]
            /\ UNCHANGED <<Store, response>>

(* The k-th of the eight counting queries. *)
CountQuery(k) ==
    CASE k = 1 -> Cardinality(DOMAIN cars)
      [] k = 2 -> CountCars("available")
      [] k = 3 -> CountCars("rented")
      [] k = 4 -> CountCars("maintenance")
      [] k = 5 -> Cardinality(DOMAIN rentals)
      [] k = 6 -> CountRentals("active")
      [] k = 7 -> CountRentals("completed")
      [] k = 8 -> Cardinality(DOMAIN users)

DashCount ==
    /\ inflight.pc = "stats"
    /\ LET k == Len(inflight.counts) + 1 IN
       inflight' = [pc |-> IF k = 8 THEN "activity" ELSE "stats",
                    counts |-> Append(inflight.counts, CountQuery(k))]
    /\ UNCHANGED <<Store, request, response>>

StatsData(counts) ==
    [cars |-> counts[1], availableCars |-> counts[2], rentedCars |-> counts[3],
     maintenanceCars |-> counts[4], rentals |-> counts[5],
     activeRentals |-> counts[6], completedRentals |-> counts[7],
     users |-> counts[8]]

(* The two list queries of the activity feed, with the rows they fetch. *)
DashActivity ==
    /\ inflight.pc = "activity"
    /\ \E tl \in TieOrders, tr \in TieOrders :
        inflight' = [pc |-> "rentals", counts |-> inflight.counts,
                     activity |-> Activity(tl, tr)]
    /\ UNCHANGED <<Store, request, response>>

(* Rental.objects.all(), evaluated when the loop starts. *)
DashReadRentals ==
    /\ inflight.pc = "rentals"
    /\ \E ta \in TieOrders :
        LET ids == OrderByDesc(rentals, "start_date", ta) IN
        inflight' = [pc |-> "count", counts |-> inflight.counts,
                     activity |-> inflight.activity,
                     rows |-> [k \in 1 .. Len(ids) |-> rentals[ids[k]]]]
    /\ UNCHANGED <<Store, request, response>>

Fail ==
    /\ response' = Resp("GET dashboard", "error", "Car.DoesNotExist", FALSE, NoId)
    /\ inflight' = [pc |-> "done"]

(* The loop over the rentals read: rental.car fetches the car's row. *)
DashCountCars ==
    /\ inflight.pc = "count"
    /\ LET rows == inflight.rows IN
       IF \E k \in 1 .. Len(rows) : rows[k].car \notin DOMAIN cars
       THEN Fail
       ELSE /\ inflight' =
                [pc |-> "fetch", counts |-> inflight.counts,
                 activity |-> inflight.activity,
                 top |-> Take(SortDescending(
                            CarRentalCount(rows, [k \in 1 .. Len(rows) |-> k], <<>>),
                            "rental_count"), PopularLimit),
                 popular |-> <<>>]
            /\ UNCHANGED response
    /\ UNCHANGED <<Store, request>>

(* Car.objects.get(id=car_id) for the next car of sorted_cars[:5], or the
   Response when the loop is over. *)
DashFetchCar ==
    /\ inflight.pc = "fetch"
    /\ LET k == Len(inflight.popular) + 1 IN
       IF k > Len(inflight.top)
       THEN /\ response' = Resp("GET dashboard", "ok", "", FALSE, NoId)
                           @@ [stats |-> StatsData(inflight.counts),
                               activity |-> inflight.activity,
                               popularCars |-> inflight.popular]
            /\ inflight' = [pc |-> "done"]
       ELSE IF inflight.top[k].car_id \notin DOMAIN cars
            THEN Fail
            ELSE /\ inflight' = [inflight EXCEPT
                        !.popular = Append(@, CarEntry(inflight.top[k]))]
                 /\ UNCHANGED response
    /\ UNCHANGED <<Store, request>>

(* A write of another worker that commits while the request is served. *)
Serving == inflight.pc \notin {"idle", "done"}

Skew ==
    /\ Serving
    /\ request.writes < MaxSkew
    /\ request' = [request EXCEPT !.seen = @ \cup {Stats'}, !.writes = @ + 1]

SkewBegin == \E who \in People \cup {Anon} : DashBegin(who)

SkewCreateCar == \E st \in CAR_STATUS : CreateCar(1, st, 1) /\ Skew

SkewUpdateCar == \E c \in DOMAIN cars, st \in CAR_STATUS : UpdateCar(1, c, st) /\ Skew

SkewDeleteCar == \E c \in DOMAIN cars : DeleteCar(1, c) /\ Skew

SkewPost ==
    /\ seq.rental < MaxRentals
    /\ \E d \in StatData : CreateRental(1, d) /\ Skew

SkewPatch ==
    \E id \in DOMAIN rentals, st \in RENTAL_STATUS :
        UpdateRental(1, id, [status |-> st], TRUE) /\ Skew

SkewDelete == \E id \in DOMAIN rentals : DeleteRental(1, id) /\ Skew

NextDash ==
    \/ SkewBegin \/ DashCount \/ DashActivity \/ DashReadRentals
    \/ DashCountCars \/ DashFetchCar
    \/ SkewCreateCar \/ SkewUpdateCar \/ SkewDeleteCar
    \/ SkewPost \/ SkewPatch \/ SkewDelete

SpecDash == InitDash /\ [][NextDash]_vars

(* C13: the stats of a dashboard response are the counts of one database
   state that existed while the request was served, whatever car and rental
   creates, deletes and status updates were committed in between; the three
   per-status car counts add up to the car count. *)
StatsAreOneRead ==
    Served =>
        /\ response.stats \in request.seen
        /\ response.stats.availableCars + response.stats.rentedCars
              + response.stats.maintenanceCars = response.stats.cars

(* C20: a dashboard request served while cars or rentals are deleted ends
   with a {stats, activity, popularCars} result; it never fails because a
   car it counted from the rentals is gone when its row is fetched. *)
DashboardSurvivesDeletes ==
    (response.method = "GET dashboard" /\ response.result # "denied") =>
        /\ response.result = "ok"
        /\ {"stats", "activity", "popularCars"} \subseteq DOMAIN response

----------------------------------------------------------------------------
(* Who reaches what: the admin and two other users create, read, update and
   delete rentals and log in; an unauthenticated requester tries the same.
   The third user is an account the admin has created. *)

InitAccess ==
    /\ users = (1 :> "admin") @@ (2 :> "user") @@ (3 :> "user")
    /\ locations = {1}
    /\ cars = (1 :> [status |-> "available", location |-> 1])
              @@ (2 :> [status |-> "available", location |-> 1])
    /\ rentals = <<>>
    /\ logins = <<>>
    /\ seq = [user |-> 3, location |-> 1, car |-> 2, rental |-> 0, login |-> 0]
    /\ now = 0
    /\ request = NoRequest
    /\ response = NoResponse
    /\ inflight = <<>>

Requesters == {Anon, 1, 2, 3}

Listed(method, ids) == Resp(method, "ok", "", FALSE, NoId) @@ [ids |-> ids]

(* GET /rentals/ *)
ListRentals(who) ==
    /\ IF ~IsAuthenticated(who)
       THEN Reject("GET rentals", "denied", "", FALSE)
       ELSE /\ response' = Listed("GET rentals", GetQueryset(who))
            /\ UNCHANGED <<users, locations, cars, rentals, logins, seq, now>>
    /\ UNCHANGED inflight

(* GET /rentals/active/ *)
ActiveRentals(who) ==
    /\ IF ~IsAuthenticated(who)
       THEN Reject("GET rentals/active", "denied", "", FALSE)
       ELSE /\ response' = Listed("GET rentals/active",
                    {i \in GetQueryset(who) : rentals[i].status = "active"})
            /\ UNCHANGED <<users, locations, cars, rentals, logins, seq, now>>
    /\ UNCHANGED inflight

(* GET /rentals/<id>/ *)
RetrieveRental(who, id) ==
    /\ IF ~IsAuthenticated(who)
       THEN Reject("GET rental", "denied", "", FALSE)
       ELSE IF id \notin GetQueryset(who)
            THEN Reject("GET rental", "not_found", "", FALSE)
            ELSE /\ response' = Listed("GET rental", {id})
                 /\ UNCHANGED <<users, locations, cars, rentals, logins, seq, now>>
    /\ UNCHANGED inflight

(* LoginHistoryViewSet.get_queryset *)
LoginHistoryQueryset(who) ==
    IF IsAuthenticated(who)
    THEN IF users[who] = "admin"
         THEN DOMAIN logins
         ELSE {l \in DOMAIN logins : logins[l].user = who}
    ELSE {}

(* GET /login-history/ *)
ListLoginHistory(who) ==
    /\ IF ~IsAdminOrReadOnly(who, "GET")
       THEN Reject("GET login-history", "denied", "", FALSE)
       ELSE /\ response' = Listed("GET login-history", LoginHistoryQueryset(who))
            /\ UNCHANGED <<users, locations, cars, rentals, logins, seq, now>>
    /\ UNCHANGED inflight

AccData ==
    {[user |-> u, car |-> 1, start_date |-> p[1], end_date |-> p[2], status |-> st] :
        u \in {1, 2, 3}, p \in {<<0, 1>>, <<1, 1>>}, st \in {"active", "completed"}}

AccPatchData == {[user |-> u] : u \in {1, 2, 3}} \cup {[status |-> "active"]}

AccPost ==
    /\ seq.rental < MaxRentals
    /\ \E who \in Requesters, d \in AccData :
        CreateRental(who, d) /\ Log("create", who, NoId, d, FALSE)

AccPatch ==
    \E who \in Requesters, id \in 1 .. MaxRentals, d \in AccPatchData :
        UpdateRental(who, id, d, TRUE) /\ Log("update", who, id, d, TRUE)

AccDelete ==
    \E who \in Requesters, id \in 1 .. MaxRentals :
        DeleteRental(who, id) /\ Log("delete", who, id, <<>>, FALSE)

AccList ==
    \E who \in Requesters : ListRentals(who) /\ Log("list", who, NoId, <<>>, FALSE)

AccActive ==
    \E who \in Requesters :
        ActiveRentals(who) /\ Log("active", who, NoId, <<>>, FALSE)

AccRetrieve ==
    \E who \in Requesters, id \in 1 .. MaxRentals :
        RetrieveRental(who, id) /\ Log("retrieve", who, id, <<>>, FALSE)

AccLogin ==
    /\ seq.login < MaxLogins
    /\ \E u \in {1, 2, 3} :
        Login(u, "pw") /\ Log("login", Anon, NoId, <<>>, FALSE)

AccLoginHistory ==
    \E who \in Requesters :
        ListLoginHistory(who) /\ Log("login-history", who, NoId, <<>>, FALSE)

NextAccess ==
    \/ AccPost \/ AccPatch \/ AccDelete \/ AccList \/ AccActive \/ AccRetrieve
    \/ AccLogin \/ AccLoginHistory

SpecAccess == InitAccess /\ [][NextAccess]_vars

(* The rows of a table the requester is entitled to. *)
Entitled(table, who) ==
    IF who \notin DOMAIN users THEN {}
    ELSE IF users[who] = "admin" THEN DOMAIN table
    ELSE {i \in DOMAIN table : table[i].user = who}

(* C21: a user who is not an admin reaches, by list, retrieve, update,
   delete and the active action, exactly the rentals whose user they are,
   and exactly their own login-history entries; an admin reaches all; an
   unauthenticated requester reaches none. *)
RowLevelVisibility ==
    LET who == request.who
        mine == Entitled(request.before, who)
    IN  /\ request.op = "list" =>
              IF who \in DOMAIN users
              THEN response.result = "ok" /\ response.ids = mine
              ELSE response.result = "denied"
        /\ request.op = "active" =>
              IF who \in DOMAIN users
              THEN /\ response.result = "ok"
                   /\ response.ids = {i \in mine : rentals[i].status = "active"}
              ELSE response.result = "denied"
        /\ request.op = "retrieve" =>
              IF request.id \in mine
              THEN response.result = "ok" /\ response.ids = {request.id}
              ELSE response.result \in {"denied", "not_found"}
        /\ request.op = "update" =>
              IF request.id \in mine
              THEN response.result \in {"updated", "invalid"}
              ELSE response.result \in {"denied", "not_found"} /\ Unchanged
        /\ request.op = "delete" =>
              IF request.id \in mine
              THEN response.result = "deleted" /\ request.id \notin DOMAIN rentals
              ELSE response.result \in {"denied", "not_found"} /\ Unchanged
        /\ request.op = "login-history" =>
              /\ response.result = "ok"
              /\ response.ids = Entitled(logins, who)

RowLevelVisibilityWitness ==
    /\ request.op = "list"
    /\ request.who = 2
    /\ response.result = "ok"
    /\ Cardinality(response.ids) = 1
    /\ Cardinality(DOMAIN rentals) = 2
    /\ \E i \in DOMAIN rentals : rentals[i].user = 3

(* The create request passes the serializer's validation in the store it
   was issued against. *)
PassesValidation ==
    LET d == request.data
    IN  /\ d.user \in DOMAIN users
        /\ d.car \in DOMAIN cars
        /\ d.start_date < d.end_date
        /\ \A i \in DOMAIN request.before :
              LET r == request.before[i]
              IN  ~(/\ r.car = d.car
                    /\ r.status = "active"
                    /\ r.start_date < d.end_date
                    /\ r.end_date > d.start_date)

ByNonAdmin == request.who \in DOMAIN users /\ users[request.who] # "admin"

ByAdmin == request.who \in DOMAIN users /\ users[request.who] = "admin"

Saved ==
    /\ response.result = "created"
    /\ DOMAIN rentals = DOMAIN request.before \cup {response.id}
    /\ response.id \notin DOMAIN request.before
    /\ rentals[response.id].user = request.data.user
    /\ SameRows(DOMAIN request.before)

(* C22 as stated: every create by a non-admin whose 'user' field names a
   different user is rejected with PermissionDenied and persists nothing;
   a create by a non-admin for themself, or by an admin for any user, is
   saved when validation passes. *)
OnlyAdminsCreateForOthers ==
    request.op = "create" =>
        /\ (ByNonAdmin /\ request.data.user # request.who) =>
              /\ response.result = "denied"
              /\ response.error = ErrNotOwner
              /\ Unchanged
        /\ (PassesValidation /\ (ByAdmin \/ (ByNonAdmin /\ request.data.user = request.who)))
              => Saved

(* C22, amended: a create by a non-admin for a different user persists
   nothing; it is rejected with PermissionDenied when it passes validation
   and with the validation error otherwise.  A create by a non-admin for
   themself, or by an admin for any user, is saved when validation passes. *)
OnlyAdminsCreateForOthersValidated ==
    request.op = "create" =>
        /\ (ByNonAdmin /\ request.data.user # request.who) =>
              /\ Unchanged
              /\ IF PassesValidation
                 THEN response.result = "denied" /\ response.error = ErrNotOwner
                 ELSE response.result = "invalid" /\ response.error # ErrNotOwner
        /\ (PassesValidation /\ (ByAdmin \/ (ByNonAdmin /\ request.data.user = request.who)))
              => Saved

OnlyAdminsCreateForOthersWitness ==
    /\ request.op = "create"
    /\ request.who = 2
    /\ request.data.user = 3
    /\ response.result = "denied"
    /\ response.error = ErrNotOwner
    /\ rentals = request.before
    /\ Cardinality(DOMAIN rentals) = 1

----------------------------------------------------------------------------
(* The activity list against a single sort of every stored event. *)

Events ==
    {<<"login", l>> : l \in DOMAIN logins} \cup {<<"rental", i>> : i \in DOMAIN rentals}

EventTime(e) ==
    IF e[1] = "login" THEN logins[e[2]].timestamp ELSE rentals[e[2]].start_date

(* The timestamps of all events in descending order, cut after the first
   ten: position p holds the time t with fewer than p events after t and
   at least p events at or after t. *)
LatestTimestamps ==
    LET n == IF Cardinality(Events) < 10 THEN Cardinality(Events) ELSE 10
    IN  [p \in 1 .. n |->
            CHOOSE t \in {EventTime(e) : e \in Events} :
                /\ Cardinality({e \in Events : EventTime(e) > t}) < p
                /\ Cardinality({e \in Events : EventTime(e) >= t}) >= p]

(* C23: for every snapshot, the activity list built from the 10 most
   recent logins and the 10 most recent rentals has the same sequence of
   timestamps as sorting all logins and all rentals together by timestamp
   descending and keeping the first 10. *)
PreTruncationLosesNothing ==
    Served =>
        [k \in 1 .. Len(response.activity) |-> response.activity[k].timestamp]
            = LatestTimestamps

PreTruncationLosesNothingWitness ==
    /\ Served
    /\ Cardinality(DOMAIN logins) > 10
    /\ Len(response.activity) = 10
    /\ response.activity[1].timestamp > response.activity[10].timestamp
    /\ \E l \in DOMAIN logins : logins[l].timestamp = response.activity[1].timestamp
    /\ Cardinality({l \in DOMAIN logins : logins[l].timestamp = 0}) > 1

----------------------------------------------------------------------------
(* One request that carries both dates, against any store (SpecRequest). *)

NoOverlapIn(store) ==
    \A i \in DOMAIN store, j \in DOMAIN store :
        (/\ i # j
         /\ store[i].car = store[j].car
         /\ store[i].status = "active"
         /\ store[j].status = "active")
        => ~RowsOverlap(store[i], store[j])

(* C24: with requests handled one at a time, an accepted create, and an
   accepted update that supplies both start_date and end_date, keeps the
   no-overlap invariant: if no two active rentals of one car overlapped
   before the request, none overlap after it, also when the update moves
   the rental to another car or makes a completed or cancelled rental
   active again. *)
CheckedWritesKeepNoOverlap ==
    (/\ request.op \in {"create", "update"}
     /\ Dated
     /\ response.result \in {"created", "updated"}
     /\ NoOverlapIn(request.before))
    => NoOverlapIn(rentals)

CheckedWritesKeepNoOverlapWitness ==
    /\ request.op = "update"
    /\ Dated
    /\ response.result = "updated"
    /\ NoOverlapIn(request.before)
    /\ request.before[request.id].status = "cancelled"
    /\ rentals[request.id].status = "active"
    /\ rentals[request.id].car # request.before[request.id].car
    /\ \E j \in ActiveOn(rentals, rentals[request.id].car) \ {request.id} :
          rentals[j].end_date = rentals[request.id].start_date

----------------------------------------------------------------------------
(* Ownership of the rentals a non-admin writes (SpecAccess). *)

(* C25: after any sequence of create and update requests, a rental created
   or modified by a user who is not an admin is owned by the user who
   issued the request; an update cannot reassign the rental's 'user' field
   to someone else. *)
NonAdminWritesStayOwn ==
    (/\ request.op \in {"create", "update"}
     /\ ByNonAdmin
     /\ response.result \in {"created", "updated"})
    => LET id == IF request.op = "create" THEN response.id ELSE request.id
       IN  rentals[id].user = request.who

----------------------------------------------------------------------------
(* Writes to users, cars and locations, tried by everyone: the admin, the
   other users and an unauthenticated requester create, update and delete
   in the three collections, while a user books a rental and logs in. *)

MaxUsers == 3
MaxFleet == 2
MaxLocations == 2
MaxOther == 1

(* POST /users/ : UserCreateSerializer.create *)
CreateUser(who, role) ==
    /\ IF ~IsAdminOrReadOnly(who, "POST")
       THEN Reject("POST user", "denied", "", FALSE)
       ELSE IF role \notin ROLES
            THEN Reject("POST user", "invalid", "", FALSE)
            ELSE LET id == seq.user + 1 IN
                 /\ users' = users @@ (id :> role)
                 /\ seq' = [seq EXCEPT !.user = id]
                 /\ response' = Resp("POST user", "created", "", FALSE, id)
                 /\ UNCHANGED <<locations, cars, rentals, logins, now>>
    /\ UNCHANGED inflight

(* PATCH /users/<id>/ {role} *)
UpdateUser(who, u, role) ==
    /\ IF ~IsAdminOrReadOnly(who, "PATCH")
       THEN Reject("PATCH user", "denied", "", FALSE)
       ELSE IF u \notin DOMAIN users
            THEN Reject("PATCH user", "not_found", "", FALSE)
            ELSE IF role \notin ROLES
                 THEN Reject("PATCH user", "invalid", "", FALSE)
                 ELSE /\ users' = [users EXCEPT ![u] = role]
                      /\ response' = Resp("PATCH user", "updated", "", FALSE, u)
                      /\ UNCHANGED <<locations, cars, rentals, logins, seq, now>>
    /\ UNCHANGED inflight

(* POST /locations/ *)
CreateLocation(who) ==
    /\ IF ~IsAuthenticated(who) \/ ~IsAdminOrReadOnly(who, "POST")
       THEN Reject("POST location", "denied", "", FALSE)
       ELSE LET id == seq.location + 1 IN
            /\ locations' = locations \cup {id}
            /\ seq' = [seq EXCEPT !.location = id]
            /\ response' = Resp("POST location", "created", "", FALSE, id)
            /\ UNCHANGED <<users, cars, rentals, logins, now>>
    /\ UNCHANGED inflight

(* PATCH /locations/<id>/ : name and address are not part of the state. *)
UpdateLocation(who, l) ==
    /\ IF ~IsAuthenticated(who) \/ ~IsAdminOrReadOnly(who, "PATCH")
       THEN Reject("PATCH location", "denied", "", FALSE)
       ELSE IF l \notin locations
            THEN Reject("PATCH location", "not_found", "", FALSE)
            ELSE /\ response' = Resp("PATCH location", "updated", "", FALSE, l)
                 /\ UNCHANGED <<users, locations, cars, rentals, logins, seq, now>>
    /\ UNCHANGED inflight

InitAdmin ==
    /\ users = (1 :> "admin") @@ (2 :> "user")
    /\ locations = {1}
    /\ cars = (1 :> [status |-> "available", location |-> 1])
    /\ rentals = <<>>
    /\ logins = <<>>
    /\ seq = [user |-> 2, location |-> 1, car |-> 1, rental |-> 0, login |-> 0]
    /\ now = 0
    /\ request = NoRequest
    /\ response = NoResponse
    /\ inflight = <<>>

Everyone == {Anon, 1, 2}

AdmCreateUser ==
    /\ seq.user < MaxUsers
    /\ \E who \in Everyone, role \in ROLES :
        CreateUser(who, role) /\ Log("POST user", who, NoId, <<>>, FALSE)

AdmUpdateUser ==
    \E who \in Everyone, u \in 1 .. MaxUsers, role \in ROLES :
        UpdateUser(who, u, role) /\ Log("PATCH user", who, u, <<>>, TRUE)

AdmDeleteUser ==
    \E who \in Everyone, u \in 1 .. MaxUsers :
        DeleteUser(who, u) /\ Log("DELETE user", who, u, <<>>, FALSE)

AdmCreateCar ==
    /\ seq.car < MaxFleet
    /\ \E who \in Everyone, l \in 1 .. MaxLocations :
        CreateCar(who, "available", l) /\ Log("POST car", who, NoId, <<>>, FALSE)

AdmUpdateCar ==
    \E who \in Everyone, c \in 1 .. MaxFleet :
        UpdateCar(who, c, "maintenance") /\ Log("PATCH car", who, c, <<>>, TRUE)

AdmDeleteCar ==
    \E who \in Everyone, c \in 1 .. MaxFleet :
        DeleteCar(who, c) /\ Log("DELETE car", who, c, <<>>, FALSE)

AdmCreateLocation ==
    /\ seq.location < MaxLocations
    /\ \E who \in Everyone :
        CreateLocation(who) /\ Log("POST location", who, NoId, <<>>, FALSE)

AdmUpdateLocation ==
    \E who \in Everyone, l \in 1 .. MaxLocations :
        UpdateLocation(who, l) /\ Log("PATCH location", who, l, <<>>, TRUE)

AdmDeleteLocation ==
    \E who \in Everyone, l \in 1 .. MaxLocations :
        DeleteLocation(who, l) /\ Log("DELETE location", who, l, <<>>, FALSE)

AdmPost ==
    /\ seq.rental < MaxOther
    /\ \E c \in 1 .. MaxFleet :
        LET d == [user |-> 2, car |-> c, start_date |-> 0, end_date |-> 1]
        IN  CreateRental(2, d) /\ Log("create", 2, NoId, d, FALSE)

AdmLogin ==
    /\ seq.login < MaxOther
    /\ Login(2, "pw")
    /\ Log("login", Anon, NoId, <<>>, FALSE)

NextAdmin ==
    \/ AdmCreateUser \/ AdmUpdateUser \/ AdmDeleteUser
    \/ AdmCreateCar \/ AdmUpdateCar \/ AdmDeleteCar
    \/ AdmCreateLocation \/ AdmUpdateLocation \/ AdmDeleteLocation
    \/ AdmPost \/ AdmLogin

SpecAdmin == InitAdmin /\ [][NextAdmin]_vars

CollectionWrites ==
    {"POST user", "PATCH user", "DELETE user", "POST car", "PATCH car",
     "DELETE car", "POST location", "PATCH location", "DELETE location"}

(* C26: a create, update or delete request on users, cars or locations
   from an unauthenticated requester, or from a user whose role is not
   admin, is denied and leaves the stored users, cars and locations as they
   were; the three collections change only by a request of an
   authenticated admin. *)
AdminOnlyWrites ==
    [][LET who == request'.who
           admin == who \in DOMAIN users /\ users[who] = "admin"
       IN  /\ (request'.op \in CollectionWrites /\ ~admin) =>
                 /\ response'.result = "denied"
                 /\ UNCHANGED <<users, cars, locations>>
           /\ <<users, cars, locations>>' # <<users, cars, locations>> =>
                 request'.op \in CollectionWrites /\ admin]_vars

AdminOnlyWritesWitness ==
    /\ request.op = "PATCH car"
    /\ request.who = 2
    /\ 2 \in DOMAIN users
    /\ users[2] = "user"
    /\ response.result = "denied"
    /\ request.id \in DOMAIN cars
    /\ cars[request.id].status = "available"
    /\ Cardinality(DOMAIN cars) = 2
    /\ Cardinality(DOMAIN users) = 3
    /\ Cardinality(locations) = 2

----------------------------------------------------------------------------
(* Login requests only: known and unknown usernames, with the right
   password, a wrong one or none, on several days.  The request record
   counts, from the responses, the successful logins of each user. *)

MaxAttempts == 4

InitLogin ==
    /\ users = (1 :> "admin") @@ (2 :> "user")
    /\ locations = {1}
    /\ cars = (1 :> [status |-> "available", location |-> 1])
              @@ (2 :> [status |-> "available", location |-> 1])
    /\ rentals = <<>>
    /\ logins = <<>>
    /\ seq = [user |-> 2, location |-> 1, car |-> 2, rental |-> 0, login |-> 0]
    /\ now = 0
    /\ request = [op |-> "none", tries |-> 0, succeeded |-> [u \in DOMAIN users |-> 0]]
    /\ response = NoResponse
    /\ inflight = <<>>

Usernames == {NoId, 1, 2, 3}

Passwords == {"", "pw", "bad"}

LoginRequest ==
    /\ request.tries < MaxAttempts
    /\ \E username \in Usernames, password \in Passwords :
        /\ Login(username, password)
        /\ request' = [op |-> "login", username |-> username, password |-> password,
                       tries |-> request.tries + 1,
                       succeeded |->
                           IF response'.result = "ok"
                           THEN [request.succeeded EXCEPT ![response'.id] = @ + 1]
                           ELSE request.succeeded]

LoginTick == now < MaxDay /\ Tick /\ UNCHANGED request

NextLogin == LoginRequest \/ LoginTick

SpecLogin == InitLogin /\ [][NextLogin]_vars

EntriesOf(table, u) == {l \in DOMAIN table : table[l].user = u}

(* C27: a login request with valid credentials appends exactly one
   LoginHistory entry, for the authenticated user; a request without a
   username or password (400) or with invalid credentials (401) leaves the
   login history unchanged; so after any sequence of login requests every
   user has as many entries as successful logins. *)
EntryPerSuccessfulLogin ==
    /\ [](\A u \in DOMAIN users :
            Cardinality(EntriesOf(logins, u)) = request.succeeded[u])
    /\ [][request'.op = "login" /\ request'.tries # request.tries =>
            LET u == request'.username
                valid == u \in DOMAIN users /\ request'.password = "pw"
            IN  IF valid
                THEN /\ response'.result = "ok"
                     /\ \E l \in DOMAIN logins' \ DOMAIN logins :
                           /\ DOMAIN logins' = DOMAIN logins \cup {l}
                           /\ logins'[l].user = u
                           /\ \A k \in DOMAIN logins : logins'[k] = logins[k]
                ELSE /\ response'.result =
                           IF u = NoId \/ request'.password = ""
                           THEN "bad_request" ELSE "unauthorized"
                     /\ logins' = logins]_vars

EntryPerSuccessfulLoginWitness ==
    /\ request.op = "login"
    /\ request.username = 2
    /\ request.password = "bad"
    /\ response.result = "unauthorized"
    /\ request.succeeded[2] = 2
    /\ request.succeeded[1] = 1
    /\ Cardinality(EntriesOf(logins, 2)) = 2

----------------------------------------------------------------------------
(* Rentals and the status of cars: the admin sets car statuses and reads
   the dashboard while a user creates, updates and deletes rentals and the
   availability of a car is asked. *)

FleetData ==
    {[user |-> 2, car |-> c, start_date |-> p[1], end_date |-> p[2], status |-> st] :
        c \in {1, 2}, p \in {<<0, 1>>, <<1, 1>>}, st \in {"active", "completed"}}

FleetPatchData ==
    {[status |-> st] : st \in {"active", "completed"}} \cup {[car |-> c] : c \in {1, 2}}

FleetUpdateCar ==
    \E c \in {1, 2}, st \in CAR_STATUS :
        UpdateCar(1, c, st) /\ Log("PATCH car", 1, c, [status |-> st], TRUE)

FleetPost ==
    /\ seq.rental < MaxRentals
    /\ \E d \in FleetData : CreateRental(2, d) /\ Log("create", 2, NoId, d, FALSE)

FleetPatch ==
    \E id \in 1 .. MaxRentals, d \in FleetPatchData :
        UpdateRental(2, id, d, TRUE) /\ Log("update", 2, id, d, TRUE)

FleetDelete ==
    \E id \in 1 .. MaxRentals :
        DeleteRental(2, id) /\ Log("delete", 2, id, <<>>, FALSE)

FleetCheck ==
    \E c \in {1, 2}, ex \in {NoId, 1} :
        /\ CheckAvailable(c, 0, 1, ex)
        /\ Log("is_car_available", Anon, ex,
               [car |-> c, start_date |-> 0, end_date |-> 1], FALSE)

FleetDashboard ==
    \E t \in TieOrders :
        DashboardData(1, t, t, t) /\ Log("dashboard", 1, NoId, <<>>, FALSE)

NextFleet ==
    \/ FleetUpdateCar \/ FleetPost \/ FleetPatch \/ FleetDelete \/ FleetCheck
    \/ FleetDashboard

SpecFleet == Init /\ [][NextFleet]_vars

RentedCars == {c \in DOMAIN cars : cars[c].status = "rented"}

(* C28: creating, updating or deleting a rental, accepted or rejected,
   leaves the status of every car unchanged; the rentedCars count of the
   stats is the number of cars with status rented, changes only by a car
   update, and does not follow the number of active rentals. *)
RentalsNeverTouchCars ==
    /\ [][request'.op \in {"create", "update", "delete"} => cars' = cars]_vars
    /\ [][RentedCars' # RentedCars => request'.op = "PATCH car"]_vars
    /\ [](Served => response.stats.rentedCars = Cardinality(RentedCars))

RentalsNeverTouchCarsWitness ==
    /\ Served
    /\ request.op = "dashboard"
    /\ response.stats.rentedCars = 0
    /\ response.stats.activeRentals = 2
    /\ \A c \in DOMAIN cars : cars[c].status = "available"

(* The create request is well-formed and meets no active rental of its car
   in the store it was issued against. *)
NoConflict ==
    LET d == request.data
    IN  \A i \in DOMAIN request.before :
            LET r == request.before[i]
            IN  ~(/\ i # request.id
                  /\ r.car = d.car
                  /\ r.status = "active"
                  /\ r.start_date < d.end_date
                  /\ r.end_date > d.start_date)

(* C29: the availability decision is the same whatever the status of the
   requested car (available, rented or maintenance): is_car_available
   answers from the stored rentals alone, a rental create request has the
   outcome the stored rentals and the request give it, and a car under
   maintenance with no overlapping active rental is accepted. *)
AvailabilityIgnoresCarStatus ==
    /\ request.op = "is_car_available" =>
          (response.result = "available" <=> NoConflict)
    /\ request.op = "create" =>
          response.result =
              IF request.data.start_date >= request.data.end_date THEN "invalid"
              ELSE IF NoConflict THEN "created" ELSE "invalid"

AvailabilityIgnoresCarStatusWitness ==
    /\ request.op = "create"
    /\ response.result = "created"
    /\ cars[request.data.car].status = "maintenance"
    /\ rentals[response.id].status = "active"
    /\ \E i \in DOMAIN request.before : request.before[i].status = "active"

====
